---------------------------- MODULE Spec2Model ----------------------------
(***************************************************************************)
(* A model of the WebAssembly guest adapter of stateroom                   *)
(* (stateroom-wasm-host/src/wasm_host.rs): WasmHost::new, the five         *)
(* StateroomService methods, the put-call-free protocol and the three     *)
(* host imports.  The guest is the environment: every exported function   *)
(* it runs may call the imports, return any value, or trap.               *)
(***************************************************************************)
EXTENDS Integers, Sequences, FiniteSets, TLC

(***************************************************************************)
(* Bounds of the model.                                                    *)
(***************************************************************************)
\* public method calls the supervisor makes on one instance
MaxCalls == 2
\* host-import calls a guest makes over the life of one instance
MaxImports == 1
\* the same two budgets where two instances run side by side
IsoMaxCalls == 2
IsoMaxImports == 1
\* and where one instance's guest uses the bridge
BridgeMaxCalls == 2
BridgeMaxImports == 2
\* new_room requests the HTTP front end serves, and the ids the short room
\* id generator draws from
MaxRequests == 3
NumShortIds == 2
\* bytes of heap in the sample guests' linear memory
HeapSize == 2

(***************************************************************************)
(* Program constants.                                                      *)
(***************************************************************************)
EXPECTED_API_VERSION == 1
EXPECTED_PROTOCOL_VERSION == 0

EXT_MEMORY == "memory"
EXT_FN_CONNECT == "connect"
EXT_FN_DISCONNECT == "disconnect"
EXT_FN_BINARY == "binary"
EXT_FN_MESSAGE == "message"
EXT_FN_TIMER == "timer"
EXT_FN_INITIALIZE == "initialize"
EXT_FN_MALLOC == "jam_malloc"
EXT_FN_FREE == "jam_free"
EXT_JAMSOCKET_VERSION == "JAMSOCKET_API_VERSION"
EXT_JAMSOCKET_PROTOCOL == "JAMSOCKET_API_PROTOCOL"

(***************************************************************************)
(* Bytes, memory and 32-bit words.                                         *)
(***************************************************************************)
Instances == {1, 2}

\* std::mem::size_of::<i32>()
I32Size == 4
\* the sample guests keep the API version cell at address 0, the protocol
\* cell after it, and then a heap of HeapSize bytes
ProtoCell == I32Size
HeapBase == ProtoCell + I32Size
MemSize == HeapBase + HeapSize

\* a u32 the guest hands to an import, as two 16-bit limbs <<hi, lo>>
Limb == 256 * 256
W(n) == <<n \div Limb, n % Limb>>
U32Max == <<Limb - 1, Limb - 1>>

\* u32 addition: the sum modulo 2^32 and whether it overflowed
U32Add(a, b) ==
    LET lo == a[2] + b[2]
        hi == a[1] + b[1] + (lo \div Limb)
    IN  [sum |-> <<hi % Limb, lo % Limb>>, overflow |-> hi >= Limb]

\* a <= b on u32 words
WordLe(a, b) == a[1] < b[1] \/ (a[1] = b[1] /\ a[2] <= b[2])

\* `x as usize` of a word known to be at most MemSize
AsUsize(a) == a[1] * Limb + a[2]

\* the slice mem[from .. to) of a byte sequence, 0-based as in the code
Slice(m, from, to) == [k \in 1..(to - from) |-> m[from + k]]

\* i32::to_le_bytes, for the data segment of the sample guests
LeBytes(v) ==
    <<v % 256, (v \div 256) % 256, (v \div Limb) % 256, (v \div (256 * Limb)) % 256>>

\* ReadBytesExt::read_i32::<LittleEndian> of four bytes
read_i32_le(b) ==
    LET top == IF b[4] >= 128 THEN b[4] - 256 ELSE b[4]
    IN  b[1] + 256 * b[2] + Limb * b[3] + 256 * Limb * top

\* std::str::from_utf8: is the byte sequence well-formed UTF-8
RECURSIVE IsUtf8(_)
IsUtf8(s) ==
    LET n == Len(s)
        Cont(k) == k <= n /\ s[k] >= 128 /\ s[k] <= 191
        In(k, lo, hi) == k <= n /\ s[k] >= lo /\ s[k] <= hi
        b == s[1]
        w == IF b < 128 THEN 1
             ELSE IF b >= 194 /\ b <= 223 /\ Cont(2) THEN 2
             ELSE IF b = 224 /\ In(2, 160, 191) /\ Cont(3) THEN 3
             ELSE IF b >= 225 /\ b <= 236 /\ Cont(2) /\ Cont(3) THEN 3
             ELSE IF b = 237 /\ In(2, 128, 159) /\ Cont(3) THEN 3
             ELSE IF b >= 238 /\ b <= 239 /\ Cont(2) /\ Cont(3) THEN 3
             ELSE IF b = 240 /\ In(2, 144, 191) /\ Cont(3) /\ Cont(4) THEN 4
             ELSE IF b >= 241 /\ b <= 243 /\ Cont(2) /\ Cont(3) /\ Cont(4) THEN 4
             ELSE IF b = 244 /\ In(2, 128, 143) /\ Cont(3) /\ Cont(4) THEN 4
             ELSE 0
    IN  IF n = 0 THEN TRUE
        ELSE IF w = 0 THEN FALSE
        ELSE IsUtf8(SubSeq(s, w + 1, n))

(***************************************************************************)
(* Inputs: guest modules, room ids, clients and payloads.                  *)
(***************************************************************************)
\* a global export: missing, of another type, or an i32 holding an address
GlobalAt(a) == [kind |-> "i32", val |-> a]
GlobalMissing == [kind |-> "missing", val |-> 0]
GlobalF64 == [kind |-> "f64", val |-> 0]

\* the data segment: the two version cells, then a zeroed heap
DataSegment(ver, proto) ==
    LeBytes(ver) \o LeBytes(proto) \o [k \in 1..HeapSize |-> 0]

\* a guest module: the function and memory exports it lacks, its two version
\* globals and its data segment
GuestModule(missing, gver, gproto, ver, proto) ==
    [missing |-> missing,
     globals |-> [n \in {EXT_JAMSOCKET_VERSION, EXT_JAMSOCKET_PROTOCOL} |->
                    IF n = EXT_JAMSOCKET_VERSION THEN gver ELSE gproto],
     data |-> DataSegment(ver, proto)]

\* sample guests: well-formed, wrong versions, and one defect at a time
Modules ==
    {GuestModule({}, GlobalAt(0), GlobalAt(ProtoCell), v, p) :
        v \in {1, 2}, p \in {0, 1}}
    \cup {GuestModule({x}, GlobalAt(0), GlobalAt(ProtoCell), v, 0) :
        x \in {EXT_FN_MALLOC, EXT_FN_CONNECT}, v \in {1, 2}}
    \cup {GuestModule({EXT_MEMORY}, GlobalAt(0), GlobalAt(ProtoCell), 1, 0)}
    \cup {GuestModule({}, g, GlobalAt(ProtoCell), 1, 0) :
        g \in {GlobalMissing, GlobalF64, GlobalAt(MemSize - 3), GlobalAt(-1)}}

GoodModule == GuestModule({}, GlobalAt(0), GlobalAt(ProtoCell), 1, 0)

\* room_id.as_bytes() of the room each instance is built for
RoomIdOf(i) == IF i = 1 THEN <<97>> ELSE <<98>>

Clients == {1, 2}
\* &str payloads ("A", "B") and &[u8] payloads
Texts == {<<65>>, <<66>>}
Blobs == {<<255, 0>>}
\* what the guest's jam_malloc may return
MallocResults == {0, HeapBase, MemSize - 1}
\* (ptr, len) ranges a guest passes to send_message and send_binary
ImportRanges ==
    {<<W(HeapBase), W(1)>>, <<W(MemSize), W(1)>>, <<U32Max, W(1)>>}
\* the recipient_i32 a guest passes to send_message and send_binary
Recipients == {0}
Durations == {100}

(***************************************************************************)
(* Pure host functions.                                                    *)
(***************************************************************************)
\* wasmtime's Memory::write(store, offset, buffer): a MemoryAccessError unless
\* [offset, offset + len) lies inside the memory
MemWrite(m, offset, buf) ==
    IF offset + Len(buf) <= Len(m)
    THEN [ok |-> TRUE,
          mem |-> [k \in 1..Len(m) |->
                     IF k > offset /\ k <= offset + Len(buf)
                     THEN buf[k - offset] ELSE m[k]]]
    ELSE [ok |-> FALSE, mem |-> m]

\* get_memory: the caller's "memory" export, or a panic
get_memory(g) == IF EXT_MEMORY \in g.missing THEN "panic" ELSE "memory"

\* a get_u8_vec that takes len for the end of the range
get_u8_vec_to_len(m, start, len, overflowChecks) ==
    IF WordLe(start, len) /\ WordLe(len, W(Len(m)))
    THEN [st |-> "ok", data |-> Slice(m, AsUsize(start), AsUsize(len))]
    ELSE [st |-> "panic", data |-> <<>>]

\* get_u8_vec: memory.data(caller).get(start as usize..(start + len) as usize),
\* a panic when the slice is None.  start + len is u32 arithmetic: it panics
\* where the build checks overflow and wraps where it does not.
get_u8_vec(m, start, len, overflowChecks) ==
    LET s == U32Add(start, len)
    IN  IF s.overflow /\ overflowChecks THEN [st |-> "panic", data |-> <<>>]
        ELSE IF WordLe(start, s.sum) /\ WordLe(s.sum, W(Len(m)))
        THEN [st |-> "ok", data |-> Slice(m, AsUsize(start), AsUsize(s.sum))]
        ELSE [st |-> "panic", data |-> <<>>]

\* get_string: get_u8_vec, then std::str::from_utf8(data).map_err(..)
get_string(m, start, len, overflowChecks) ==
    LET d == get_u8_vec(m, start, len, overflowChecks)
    IN  IF d.st = "ok" /\ ~IsUtf8(d.data) THEN [st |-> "err", data |-> <<>>]
        ELSE d

\* `i as u32` of an i32: the two's-complement word
I32AsU32(v) ==
    IF v >= 0 THEN W(v)
    ELSE <<Limb - 1 - ((0 - v - 1) \div Limb), Limb - 1 - ((0 - v - 1) % Limb)>>

\* a get_global that takes the global's own value for the version
get_global_direct(m, inst, name) ==
    LET g == inst.globals[name]
    IN  [ok |-> g.kind = "i32", val |-> g.val]

\* get_global: the named global's i32, as u32, is an address; the result is
\* the little-endian i32 in the four bytes of memory at that address.  The
\* end of the range is usize arithmetic, wider than u32 on the hosts wasmtime
\* runs on, so i as usize + 4 does not overflow.
get_global(m, inst, name) ==
    LET g == inst.globals[name]
        i == I32AsU32(g.val)
    IN  IF g.kind = "missing" THEN [ok |-> FALSE, val |-> 0]
        ELSE IF g.kind # "i32" THEN [ok |-> FALSE, val |-> 0]
        ELSE IF i[1] # 0 \/ i[2] + I32Size > Len(m) THEN [ok |-> FALSE, val |-> 0]
        ELSE [ok |-> TRUE,
              val |-> read_i32_le(Slice(m, AsUsize(i), AsUsize(i) + I32Size))]

\* MessageRecipient::decode_i32: 0 is Broadcast, a positive value the single
\* client of that id, a negative value everyone except the client of its
\* absolute value; every i32 decodes to exactly one variant
decode_i32(c) ==
    IF c = 0 THEN [tag |-> "Broadcast", client |-> 0]
    ELSE IF c > 0 THEN [tag |-> "Single", client |-> c]
    ELSE [tag |-> "ExcludeOne", client |-> 0 - c]

\* client.into(): a ClientId as the u32 handed to the guest
ClientInto(c) == c

\* `data.len() as u32`
LenU32(data) == Len(data)

(***************************************************************************)
(* State.                                                                  *)
(***************************************************************************)
VARIABLES
    module,     \* the guest module every instance is built from
    pc,         \* per instance: "unborn", "guest", "idle", "failed", "panicked"
    frame,      \* per instance: the guest call in progress and the host
                \* operation that is waiting for it
    mem,        \* per store: the guest's linear memory
    result,     \* per instance: what WasmHost::new returned
    guestLog,   \* per store: the exported-function calls the guest has seen
    live,       \* per store: (ptr, len) jam_malloc returned, not yet freed
    sink,       \* per context: the events the context sink has received
    supLog,     \* per instance: the public method calls the supervisor made
    errLog,     \* per instance: the errors tracing::error! recorded
    imports,    \* per instance: the host-import calls the guest has made
    reads,      \* per instance: the get_global calls WasmHost::new has made
    room_id_strategy,   \* the front end's RoomIdStrategy
    request,    \* per new_room request: where it is, its room id, its room
                \* actor and its response
    actors,     \* the room actors that were created
    room_mapper \* the front end's RoomMapper: room id to room actor

serveVars == <<room_id_strategy, request, actors, room_mapper>>

vars == <<module, pc, frame, mem, result, guestLog, live, sink, supLog,
          errLog, imports, reads, room_id_strategy, request, actors,
          room_mapper>>

NoFrame == [op |-> "none", fn |-> "none", client |-> 0, pt |-> 0, data |-> <<>>]

Methods ==
    {EXT_FN_CONNECT, EXT_FN_DISCONNECT, EXT_FN_TIMER, EXT_FN_MESSAGE,
     EXT_FN_BINARY}

\* one store shared by every instance built from the module
StoreShared(i) == 1

\* Store::new(engine, wasi): every WasmHost::new builds a store of its own
StoreOf(i) == i

\* context.clone(): the closures of an instance capture the context sink
\* that was passed to its WasmHost::new
ContextOf(i) == i

\* new_room requests, room ids and room actor addresses
Requests == 1..MaxRequests
NoAddr == 0
NoRoom == ""

\* ShortRoomIdGenerator::generate: self.0 letters drawn at random
ShortIds == {"A" \o ToString(k) : k \in 1..NumShortIds}

\* UuidRoomIdGenerator::generate: Uuid::new_v4(), taken to be new each time
UuidOf(r) == "uuid-" \o ToString(r)

RoomIds == ShortIds \cup {UuidOf(r) : r \in Requests}

\* RoomIdStrategy: Implicit, Explicit, Singleton, and Generator with the
\* short and the uuid generator
Strategies ==
    {"Implicit", "Explicit", "Singleton", "GeneratorShort", "GeneratorUuid"}

\* serve: the front end starts with an empty RoomMapper under a strategy
InitServeWith(strategies) ==
    /\ room_id_strategy \in strategies
    /\ request = [r \in Requests |->
                    [at |-> "waiting", room_id |-> NoRoom, room_addr |-> NoAddr,
                     response |-> "none"]]
    /\ actors = {}
    /\ room_mapper = [id \in RoomIds |-> NoAddr]

InitWith(mods) ==
    /\ InitServeWith({"Implicit"})
    /\ module \in mods
    /\ pc = [i \in Instances |-> "unborn"]
    /\ frame = [i \in Instances |-> NoFrame]
    /\ mem = [i \in Instances |-> <<>>]
    /\ result = [i \in Instances |-> "none"]
    /\ guestLog = [i \in Instances |-> <<>>]
    /\ live = [i \in Instances |-> <<>>]
    /\ sink = [i \in Instances |-> <<>>]
    /\ supLog = [i \in Instances |-> <<>>]
    /\ errLog = [i \in Instances |-> <<>>]
    /\ imports = [i \in Instances |-> <<>>]
    /\ reads = [i \in Instances |-> <<>>]

Init == InitWith(Modules)

(***************************************************************************)
(* Host steps shared by the actions.                                       *)
(***************************************************************************)
\* bytes the guest finds at [pt, pt + len) when it is called, <<-1>> when the
\* range is not inside its memory
View(m, pt, len) ==
    IF pt + len <= Len(m) THEN Slice(m, pt, pt + len) ELSE <<-1>>

\* one exported-function call as the guest sees it: its arguments, the bytes
\* its pointer argument addresses, how it ended and what it returned
CallEntry(fn, args, view) ==
    [fn |-> fn, args |-> args, view |-> view, end |-> "running", ret |-> -1]

\* the last call of the log, ended: "returned" (ret is the value, -1 for
\* none), "trapped", or "aborted" by a host panic
EndLast(log, end, v) == [log EXCEPT ![Len(log)].end = end, ![Len(log)].ret = v]

\* the allocation (pt, len) taken out of the outstanding ones
RECURSIVE Release(_, _)
Release(l, a) ==
    IF l = <<>> THEN <<>>
    ELSE IF Head(l) = a THEN Tail(l)
    ELSE <<Head(l)>> \o Release(Tail(l), a)

\* the two budgets of a run: public method calls made, import calls made
CallsMade == Len(supLog[1]) + Len(supLog[2])
ImportsMade == Len(imports[1]) + Len(imports[2])

\* a host that refuses to call into a guest that has trapped before
EnterGuestUnlessPoisoned(i, op, fn, args, view, client, pt, data, log) ==
    IF \E k \in 1..Len(log) : log[k].end = "trapped"
    THEN /\ pc' = [pc EXCEPT ![i] = "idle"]
         /\ frame' = [frame EXCEPT ![i] = NoFrame]
         /\ guestLog' = [guestLog EXCEPT ![StoreOf(i)] = log]
         /\ UNCHANGED sink
    ELSE /\ pc' = [pc EXCEPT ![i] = "guest"]
         /\ frame' = [frame EXCEPT ![i] =
                        [op |-> op, fn |-> fn, client |-> client, pt |-> pt,
                         data |-> data]]
         /\ guestLog' = [guestLog EXCEPT ![StoreOf(i)] =
                           Append(log, CallEntry(fn, args, view))]
         /\ UNCHANGED sink

\* TypedFunc::call(&mut self.store, args): control passes to the guest
EnterGuest(i, op, fn, args, view, client, pt, data, log) ==
    /\ pc' = [pc EXCEPT ![i] = "guest"]
    /\ frame' = [frame EXCEPT ![i] =
                   [op |-> op, fn |-> fn, client |-> client, pt |-> pt,
                    data |-> data]]
    /\ guestLog' = [guestLog EXCEPT ![StoreOf(i)] =
                      Append(log, CallEntry(fn, args, view))]
    /\ UNCHANGED sink

\* WasmHost::new returns Err(err): no instance exists
NewFails(i, err) ==
    /\ pc' = [pc EXCEPT ![i] = "failed"]
    /\ frame' = [frame EXCEPT ![i] = NoFrame]
    /\ result' = [result EXCEPT ![i] = err]
    /\ UNCHANGED <<errLog, sink>>

\* a public method returns to the supervisor without an error
MethodReturns(i) ==
    /\ pc' = [pc EXCEPT ![i] = "idle"]
    /\ frame' = [frame EXCEPT ![i] = NoFrame]
    /\ UNCHANGED <<result, errLog, sink>>

ErrorEntry(i, method, err) ==
    [call |-> Len(supLog[i]), method |-> method, error |-> err]

\* a method that unwraps the error instead of logging it
LogErrorUnwraps(i, method, err) ==
    /\ pc' = [pc EXCEPT ![i] = "panicked"]
    /\ frame' = [frame EXCEPT ![i] = NoFrame]
    /\ UNCHANGED <<result, errLog, sink>>

\* a method that also reports the error to the room's context sink
LogErrorNotifiesSink(i, method, err) ==
    /\ pc' = [pc EXCEPT ![i] = "idle"]
    /\ frame' = [frame EXCEPT ![i] = NoFrame]
    /\ errLog' = [errLog EXCEPT ![i] = Append(@, ErrorEntry(i, method, err))]
    /\ sink' = [sink EXCEPT ![ContextOf(i)] =
                  Append(@, [kind |-> "send_message", to |-> decode_i32(0),
                             data |-> <<>>, ms |-> 0])]
    /\ UNCHANGED result

\* if let Err(error) = .. { tracing::error!(..) }: the error is recorded and
\* the method returns to the supervisor
LogError(i, method, err) ==
    /\ pc' = [pc EXCEPT ![i] = "idle"]
    /\ frame' = [frame EXCEPT ![i] = NoFrame]
    /\ errLog' = [errLog EXCEPT ![i] = Append(@, ErrorEntry(i, method, err))]
    /\ UNCHANGED <<result, sink>>

\* panic!(): the panic unwinds through the guest call and the host method
\* into the thread that called it
HostPanics(i) ==
    /\ pc' = [pc EXCEPT ![i] = "panicked"]
    /\ frame' = [frame EXCEPT ![i] = NoFrame]
    /\ UNCHANGED <<result, errLog, sink>>

\* the `?` on a TypedFunc::call that trapped: WasmHost::new fails, a public
\* method hands the error to its if-let
TrapSurfaces(i) ==
    IF frame[i].op = "new" THEN NewFails(i, "Trap")
    ELSE LogError(i, frame[i].op, "Trap")

InGuest(i, ops, fns) ==
    /\ pc[i] = "guest"
    /\ frame[i].op \in ops
    /\ frame[i].fn \in fns

(***************************************************************************)
(* WasmHost::new.                                                          *)
(***************************************************************************)
\* instantiate, resolve initialize, jam_malloc, jam_free and memory, then
\* call jam_malloc(len) for the room id
NewStart(i) ==
    /\ pc[i] = "unborn"
    /\ mem' = [mem EXCEPT ![StoreOf(i)] = module.data]
    /\ UNCHANGED <<module, reads, live, supLog, imports>>
    /\ IF module.missing \cap {EXT_FN_INITIALIZE, EXT_FN_MALLOC, EXT_FN_FREE} # {}
       THEN NewFails(i, "MissingExport") /\ UNCHANGED guestLog
       ELSE IF EXT_MEMORY \in module.missing
       THEN NewFails(i, "CouldNotImportMemory") /\ UNCHANGED guestLog
       ELSE /\ EnterGuest(i, "new", EXT_FN_MALLOC, <<LenU32(RoomIdOf(i))>>, <<>>,
                          0, 0, RoomIdOf(i), guestLog[StoreOf(i)])
            /\ UNCHANGED <<result, errLog>>

\* an initialize call with the length and the pointer exchanged
InitializeArgsLenFirst(pt, len) == <<len, pt>>

\* the arguments of the initialize call: (pt, len)
InitializeArgs(pt, len) == <<pt, len>>

\* jam_malloc returned pt: write the room id at pt and call initialize(pt, len)
NewMallocReturns(i, pt) ==
    /\ InGuest(i, {"new"}, {EXT_FN_MALLOC})
    /\ LET data == frame[i].data
           len == LenU32(data)
           w == MemWrite(mem[StoreOf(i)], pt, data)
           log == EndLast(guestLog[StoreOf(i)], "returned", pt)
       IN  /\ live' = [live EXCEPT ![StoreOf(i)] = Append(@, <<pt, len>>)]
           /\ mem' = [mem EXCEPT ![StoreOf(i)] = w.mem]
           /\ IF w.ok
              THEN /\ EnterGuest(i, "new", EXT_FN_INITIALIZE,
                                 InitializeArgs(pt, len),
                                 View(w.mem, pt, len), 0, pt, data, log)
                   /\ UNCHANGED <<result, errLog>>
              ELSE /\ NewFails(i, "MemoryAccessError")
                   /\ guestLog' = [guestLog EXCEPT ![StoreOf(i)] = log]
    /\ UNCHANGED <<module, reads, supLog, imports>>

\* initialize returned: call jam_free(pt, len)
NewInitializeReturns(i) ==
    /\ InGuest(i, {"new"}, {EXT_FN_INITIALIZE})
    /\ LET pt == frame[i].pt
           len == LenU32(frame[i].data)
       IN  /\ EnterGuest(i, "new", EXT_FN_FREE, <<pt, len>>,
                         View(mem[StoreOf(i)], pt, len), 0, pt, frame[i].data,
                         EndLast(guestLog[StoreOf(i)], "returned", -1))
           /\ live' = [live EXCEPT ![StoreOf(i)] = Release(@, <<pt, len>>)]
    /\ UNCHANGED <<module, reads, mem, result, supLog, errLog, imports>>

\* a version check that accepts every version
ApiVersionAny(v) == TRUE

\* the API version check
ApiVersionOk(v) == v = EXPECTED_API_VERSION

\* the protocol version check
ProtocolVersionOk(v) == v = EXPECTED_PROTOCOL_VERSION

\* what WasmHost::new returns once jam_free has returned: the two version
\* globals are read and checked, then the five methods' exports are resolved
NewFinish(m, g) ==
    LET ver == get_global(m, g, EXT_JAMSOCKET_VERSION)
        proto == get_global(m, g, EXT_JAMSOCKET_PROTOCOL)
    IN  IF ~ver.ok THEN "CouldNotImportGlobal"
        ELSE IF ~ApiVersionOk(ver.val) THEN "InvalidApiVersion"
        ELSE IF ~proto.ok THEN "CouldNotImportGlobal"
        ELSE IF ~ProtocolVersionOk(proto.val) THEN "InvalidProtocolVersion"
        ELSE IF g.missing \cap Methods # {} THEN "MissingExport"
        ELSE "Ok"

\* one get_global call: the global it named and what it returned
GlobalRead(m, g, name) ==
    [name |-> name, ok |-> get_global(m, g, name).ok,
     val |-> get_global(m, g, name).val]

\* the get_global calls NewFinish makes: the API version always, the protocol
\* version once the API version was read and accepted
NewReads(m, g) ==
    LET ver == get_global(m, g, EXT_JAMSOCKET_VERSION)
    IN  <<GlobalRead(m, g, EXT_JAMSOCKET_VERSION)>> \o
        (IF ver.ok /\ ApiVersionOk(ver.val)
         THEN <<GlobalRead(m, g, EXT_JAMSOCKET_PROTOCOL)>> ELSE <<>>)

\* jam_free returned: finish the construction
NewFreeReturns(i) ==
    /\ InGuest(i, {"new"}, {EXT_FN_FREE})
    /\ LET r == NewFinish(mem[StoreOf(i)], module)
       IN  /\ pc' = [pc EXCEPT ![i] = IF r = "Ok" THEN "idle" ELSE "failed"]
           /\ result' = [result EXCEPT ![i] = r]
    /\ reads' = [reads EXCEPT ![i] = @ \o NewReads(mem[StoreOf(i)], module)]
    /\ frame' = [frame EXCEPT ![i] = NoFrame]
    /\ guestLog' = [guestLog EXCEPT ![StoreOf(i)] = EndLast(@, "returned", -1)]
    /\ UNCHANGED <<module, mem, live, sink, supLog, errLog, imports>>

(***************************************************************************)
(* The StateroomService methods.                                           *)
(***************************************************************************)
\* a supervisor that also calls a method while another call is in the guest
CanCallDuringGuest(i, maxCalls) ==
    /\ pc[i] \in {"idle", "guest"}
    /\ result[i] = "Ok"
    /\ CallsMade < maxCalls

\* the methods take &mut self: the supervisor may call a method of a
\* constructed instance only between calls
CanCall(i, maxCalls) ==
    /\ pc[i] = "idle"
    /\ CallsMade < maxCalls

\* a public method call as the supervisor makes it; mark is the number of
\* guest calls made before it, alloc the pointer jam_malloc returned for its
\* payload (-1 while there is none)
SupCall(i, method, client, data) ==
    [method |-> method, client |-> client, data |-> data,
     mark |-> Len(guestLog[StoreOf(i)]), alloc |-> -1]

\* connect(client): self.fn_connect.call(&mut self.store, client.into())
Connect(i, c, maxCalls) ==
    /\ CanCall(i, maxCalls)
    /\ supLog' = [supLog EXCEPT ![i] = Append(@, SupCall(i, EXT_FN_CONNECT, c, <<>>))]
    /\ EnterGuest(i, EXT_FN_CONNECT, EXT_FN_CONNECT, <<ClientInto(c)>>, <<>>,
                  c, 0, <<>>, guestLog[StoreOf(i)])
    /\ UNCHANGED <<module, reads, mem, result, live, errLog, imports>>

\* disconnect(client): self.fn_disconnect.call(&mut self.store, client.into())
Disconnect(i, c, maxCalls) ==
    /\ CanCall(i, maxCalls)
    /\ supLog' = [supLog EXCEPT ![i] =
                    Append(@, SupCall(i, EXT_FN_DISCONNECT, c, <<>>))]
    /\ EnterGuest(i, EXT_FN_DISCONNECT, EXT_FN_DISCONNECT, <<ClientInto(c)>>, <<>>,
                  c, 0, <<>>, guestLog[StoreOf(i)])
    /\ UNCHANGED <<module, reads, mem, result, live, errLog, imports>>

\* timer(): self.fn_timer.call(&mut self.store, ())
Timer(i, maxCalls) ==
    /\ CanCall(i, maxCalls)
    /\ supLog' = [supLog EXCEPT ![i] = Append(@, SupCall(i, EXT_FN_TIMER, 0, <<>>))]
    /\ EnterGuest(i, EXT_FN_TIMER, EXT_FN_TIMER, <<>>, <<>>, 0, 0, <<>>,
                  guestLog[StoreOf(i)])
    /\ UNCHANGED <<module, reads, mem, result, live, errLog, imports>>

\* put_data, first half: len = data.len() as u32; self.fn_malloc.call(len)
PutDataStart(i, method, c, data) ==
    EnterGuest(i, method, EXT_FN_MALLOC, <<LenU32(data)>>, <<>>, c, 0, data,
               guestLog[StoreOf(i)])

\* message(client, text): try_message starts with put_data(message.as_bytes())
Message(i, c, text, maxCalls) ==
    /\ CanCall(i, maxCalls)
    /\ supLog' = [supLog EXCEPT ![i] = Append(@, SupCall(i, EXT_FN_MESSAGE, c, text))]
    /\ PutDataStart(i, EXT_FN_MESSAGE, c, text)
    /\ UNCHANGED <<module, reads, mem, result, live, errLog, imports>>

\* binary(client, bytes): try_binary starts with put_data(message)
Binary(i, c, bytes, maxCalls) ==
    /\ CanCall(i, maxCalls)
    /\ supLog' = [supLog EXCEPT ![i] = Append(@, SupCall(i, EXT_FN_BINARY, c, bytes))]
    /\ PutDataStart(i, EXT_FN_BINARY, c, bytes)
    /\ UNCHANGED <<module, reads, mem, result, live, errLog, imports>>

\* a put_data that writes the payload at the start of memory
PutDataWriteAtZero(m, pt, data) == MemWrite(m, 0, data)

\* where put_data writes the payload: self.memory.write(store, pt as usize, data)
PutDataWrite(m, pt, data) == MemWrite(m, pt, data)

\* a target call with the pointer and the length exchanged
TargetArgsSwapped(c, pt, len) == <<ClientInto(c), len, pt>>

\* the arguments of the target call: (client.into(), pt, len)
TargetArgs(c, pt, len) == <<ClientInto(c), pt, len>>

\* put_data, second half, and the target call: jam_malloc returned pt, the
\* payload is written at pt (an error ends the method), Ok((pt, len)) goes
\* back to try_message / try_binary, which calls the target function
PutDataMallocReturns(i, pt) ==
    /\ InGuest(i, {EXT_FN_MESSAGE, EXT_FN_BINARY}, {EXT_FN_MALLOC})
    /\ LET data == frame[i].data
           len == LenU32(data)
           w == PutDataWrite(mem[StoreOf(i)], pt, data)
           log == EndLast(guestLog[StoreOf(i)], "returned", pt)
       IN  /\ live' = [live EXCEPT ![StoreOf(i)] = Append(@, <<pt, len>>)]
           /\ mem' = [mem EXCEPT ![StoreOf(i)] = w.mem]
           /\ supLog' = [supLog EXCEPT ![i][Len(supLog[i])].alloc = pt]
           /\ IF w.ok
              THEN /\ EnterGuest(i, frame[i].op, frame[i].op,
                                 TargetArgs(frame[i].client, pt, len),
                                 View(w.mem, pt, len), frame[i].client, pt,
                                 data, log)
                   /\ UNCHANGED <<result, errLog>>
              ELSE /\ LogError(i, frame[i].op, "MemoryAccessError")
                   /\ guestLog' = [guestLog EXCEPT ![StoreOf(i)] = log]
    /\ UNCHANGED <<module, reads, imports>>

\* the arguments of the jam_free call that ends a delivery: (pt, len)
FreeArgs(pt, len) == <<pt, len>>

\* the target function returned: self.fn_free.call(&mut self.store, (pt, len))
TargetReturns(i) ==
    /\ InGuest(i, {EXT_FN_MESSAGE, EXT_FN_BINARY}, {EXT_FN_MESSAGE, EXT_FN_BINARY})
    /\ LET pt == frame[i].pt
           len == LenU32(frame[i].data)
           a == FreeArgs(pt, len)
       IN  /\ EnterGuest(i, frame[i].op, EXT_FN_FREE, a,
                         View(mem[StoreOf(i)], a[1], a[2]), frame[i].client, pt,
                         frame[i].data,
                         EndLast(guestLog[StoreOf(i)], "returned", -1))
           /\ live' = [live EXCEPT ![StoreOf(i)] = Release(@, a)]
    /\ UNCHANGED <<module, reads, mem, result, supLog, errLog, imports>>

\* jam_free returned: try_message / try_binary return Ok(())
FreeReturns(i) ==
    /\ InGuest(i, {EXT_FN_MESSAGE, EXT_FN_BINARY}, {EXT_FN_FREE})
    /\ MethodReturns(i)
    /\ guestLog' = [guestLog EXCEPT ![StoreOf(i)] = EndLast(@, "returned", -1)]
    /\ UNCHANGED <<module, reads, mem, live, supLog, imports>>

\* connect, disconnect or timer returned in the guest: the method returns
SimpleReturns(i) ==
    /\ InGuest(i, {EXT_FN_CONNECT, EXT_FN_DISCONNECT, EXT_FN_TIMER},
               {EXT_FN_CONNECT, EXT_FN_DISCONNECT, EXT_FN_TIMER})
    /\ MethodReturns(i)
    /\ guestLog' = [guestLog EXCEPT ![StoreOf(i)] = EndLast(@, "returned", -1)]
    /\ UNCHANGED <<module, reads, mem, live, supLog, imports>>

\* the guest function that is running traps
GuestTraps(i) ==
    /\ pc[i] = "guest"
    /\ TrapSurfaces(i)
    /\ guestLog' = [guestLog EXCEPT ![StoreOf(i)] = EndLast(@, "trapped", -1)]
    /\ UNCHANGED <<module, reads, mem, live, supLog, imports>>

(***************************************************************************)
(* The host imports, called by the guest while one of its functions runs.  *)
(***************************************************************************)
SinkEvent(kind, to, data, ms) ==
    [kind |-> kind, to |-> to, data |-> data, ms |-> ms]

\* one import call as the guest makes it: its arguments, the guest memory at
\* that moment, the exported-function call it was made from and how the
\* import ended
ImportCall(i, kind, to, rng, ms, st) ==
    [kind |-> kind, to |-> to, rng |-> rng, ms |-> ms, st |-> st,
     mem |-> mem[StoreOf(i)], call |-> Len(guestLog[StoreOf(i)])]

\* what an import does once it has read its arguments: "ok" delivers the
\* event to the context sink, "err" is the Err the runtime turns into a trap
\* of the calling guest function, "panic" unwinds the host thread
ImportOutcome(i, st, ev, call) ==
    /\ imports' = [imports EXCEPT ![i] = Append(@, call)]
    /\ UNCHANGED <<module, reads, mem, live, supLog>>
    /\ CASE st = "ok" ->
              /\ sink' = [sink EXCEPT ![ContextOf(i)] = Append(@, ev)]
              /\ UNCHANGED <<pc, frame, result, errLog, guestLog>>
         [] st = "err" ->
              /\ TrapSurfaces(i)
              /\ guestLog' = [guestLog EXCEPT ![StoreOf(i)] =
                                EndLast(@, "trapped", -1)]
         [] OTHER ->
              /\ HostPanics(i)
              /\ guestLog' = [guestLog EXCEPT ![StoreOf(i)] =
                                EndLast(@, "aborted", -1)]

\* env.send_message(client, start, len)
GuestSendMessage(i, to, rng, overflowChecks, maxImports) ==
    /\ pc[i] = "guest"
    /\ ImportsMade < maxImports
    /\ LET r == IF get_memory(module) = "panic" THEN [st |-> "panic", data |-> <<>>]
                ELSE get_string(mem[StoreOf(i)], rng[1], rng[2], overflowChecks)
       IN  ImportOutcome(i, r.st,
                         SinkEvent("send_message", decode_i32(to), r.data, 0),
                         ImportCall(i, "send_message", to, rng, 0, r.st))

\* env.send_binary(client, start, len)
GuestSendBinary(i, to, rng, overflowChecks, maxImports) ==
    /\ pc[i] = "guest"
    /\ ImportsMade < maxImports
    /\ LET r == IF get_memory(module) = "panic" THEN [st |-> "panic", data |-> <<>>]
                ELSE get_u8_vec(mem[StoreOf(i)], rng[1], rng[2], overflowChecks)
       IN  ImportOutcome(i, r.st,
                         SinkEvent("send_binary", decode_i32(to), r.data, 0),
                         ImportCall(i, "send_binary", to, rng, 0, r.st))

\* env.set_timer(duration_ms)
GuestSetTimer(i, ms, maxImports) ==
    /\ pc[i] = "guest"
    /\ ImportsMade < maxImports
    /\ ImportOutcome(i, "ok", SinkEvent("set_timer", decode_i32(0), <<>>, ms),
                     ImportCall(i, "set_timer", 0, <<W(0), W(0)>>, ms, "ok"))

(***************************************************************************)
(* Specifications.                                                         *)
(***************************************************************************)
NextOf(I, maxCalls, maxImports, in) ==
    /\ UNCHANGED serveVars
    /\ \E i \in I :
        \/ NewStart(i)
        \/ \E pt \in in.mallocs : NewMallocReturns(i, pt)
        \/ NewInitializeReturns(i)
        \/ NewFreeReturns(i)
        \/ \E c \in in.clients : Connect(i, c, maxCalls)
        \/ \E c \in in.clients : Disconnect(i, c, maxCalls)
        \/ Timer(i, maxCalls)
        \/ \E c \in in.clients, t \in in.texts : Message(i, c, t, maxCalls)
        \/ \E c \in in.clients, b \in in.blobs : Binary(i, c, b, maxCalls)
        \/ \E pt \in in.mallocs : PutDataMallocReturns(i, pt)
        \/ TargetReturns(i)
        \/ FreeReturns(i)
        \/ SimpleReturns(i)
        \/ GuestTraps(i)
        \/ \E to \in in.recipients, rng \in in.ranges, oc \in BOOLEAN :
               GuestSendMessage(i, to, rng, oc, maxImports)
        \/ \E to \in in.recipients, rng \in in.ranges, oc \in BOOLEAN :
               GuestSendBinary(i, to, rng, oc, maxImports)
        \/ \E ms \in Durations : GuestSetTimer(i, ms, maxImports)

\* the inputs of a run: clients, payloads, and what the guest returns and passes
Inputs ==
    [clients |-> Clients, texts |-> Texts, blobs |-> Blobs,
     mallocs |-> MallocResults, ranges |-> ImportRanges,
     recipients |-> Recipients]

\* one instance, driven by its supervisor
Next == NextOf({1}, MaxCalls, MaxImports, Inputs)
Spec == Init /\ [][Next]_vars

\* two instances of one well-formed module, each with its own supervisor,
\* on a smaller choice of inputs
IsoInputs ==
    [clients |-> {1}, texts |-> {<<65>>}, blobs |-> Blobs,
     mallocs |-> {HeapBase}, ranges |-> {<<W(HeapBase), W(1)>>},
     recipients |-> Recipients]
InitIso == InitWith({GoodModule})
NextIso == NextOf(Instances, IsoMaxCalls, IsoMaxImports, IsoInputs)
SpecIso == InitIso /\ [][NextIso]_vars

\* one instance of a well-formed module whose guest calls the imports up to
\* BridgeMaxImports times, with every kind of recipient, with the ranges of
\* the payloads it was handed and with one outside its memory
BridgeInputs ==
    [clients |-> {1}, texts |-> {<<65>>}, blobs |-> Blobs,
     mallocs |-> {HeapBase},
     ranges |-> {<<W(HeapBase), W(Len(b))>> : b \in {<<65>>} \cup Blobs}
                    \cup {<<W(MemSize), W(1)>>},
     recipients |-> {0, 1, -1}]
NextBridge == NextOf({1}, BridgeMaxCalls, BridgeMaxImports, BridgeInputs)
SpecBridge == InitIso /\ [][NextBridge]_vars

(***************************************************************************)
(* The HTTP front end: POST /new_room (jamsocket-cli/src/serve.rs).  A      *)
(* request runs up to each .await in one step; requests interleave there.  *)
(***************************************************************************)
hostVars == <<module, pc, frame, mem, result, guestLog, live, sink, supLog,
              errLog, imports, reads>>

\* HashMap::insert(room_id, room_addr): a present key gets the new value
MapInsert(map, id, addr) == [map EXCEPT ![id] = addr]

\* new_room up to `.send(GetRoomAddr).await`: the room id is generated under
\* the strategy, or the request ends with ErrorBadRequest; then the room
\* actor is created and asked for its address
NewRoomBegin(r) ==
    /\ request[r].at = "waiting"
    /\ IF room_id_strategy \in {"Explicit", "Singleton"}
       THEN /\ request' = [request EXCEPT ![r].at = "done",
                                          ![r].response = "BadRequest"]
            /\ UNCHANGED actors
       ELSE /\ \E id \in (IF room_id_strategy = "GeneratorShort" THEN ShortIds
                          ELSE {UuidOf(r)}) :
                   request' = [request EXCEPT ![r].at = "GetRoomAddr",
                                              ![r].room_id = id]
            /\ actors' = actors \cup {r}
    /\ UNCHANGED <<room_id_strategy, room_mapper>>
    /\ UNCHANGED hostVars

\* the room actor's address arrived: up to `room_mapper.write().await`
NewRoomGotAddr(r) ==
    /\ request[r].at = "GetRoomAddr"
    /\ request' = [request EXCEPT ![r].at = "write", ![r].room_addr = r]
    /\ UNCHANGED <<room_id_strategy, actors, room_mapper>>
    /\ UNCHANGED hostVars

\* the write lock was granted: insert(room_id.clone(), room_addr), the guard
\* is dropped, and the room id is returned in the response
NewRoomInsert(r) ==
    /\ request[r].at = "write"
    /\ room_mapper' = MapInsert(room_mapper, request[r].room_id,
                                request[r].room_addr)
    /\ request' = [request EXCEPT ![r].at = "done", ![r].response = "Ok"]
    /\ UNCHANGED <<room_id_strategy, actors>>
    /\ UNCHANGED hostVars

NextServe ==
    \E r \in Requests :
        \/ NewRoomBegin(r)
        \/ NewRoomGotAddr(r)
        \/ NewRoomInsert(r)

InitServe ==
    /\ InitServeWith(Strategies)
    /\ module = GoodModule
    /\ pc = [i \in Instances |-> "unborn"]
    /\ frame = [i \in Instances |-> NoFrame]
    /\ mem = [i \in Instances |-> <<>>]
    /\ result = [i \in Instances |-> "none"]
    /\ guestLog = [i \in Instances |-> <<>>]
    /\ live = [i \in Instances |-> <<>>]
    /\ sink = [i \in Instances |-> <<>>]
    /\ supLog = [i \in Instances |-> <<>>]
    /\ errLog = [i \in Instances |-> <<>>]
    /\ imports = [i \in Instances |-> <<>>]
    /\ reads = [i \in Instances |-> <<>>]

SpecServe == InitServe /\ [][NextServe]_vars

(***************************************************************************)
(* Properties.                                                             *)
(***************************************************************************)
Last(q) == q[Len(q)]

\* the guest calls made since the supervisor's call c began
Segment(i, c) ==
    SubSeq(guestLog[StoreOf(i)], c.mark + 1, Len(guestLog[StoreOf(i)]))

\* the supervisor's last call on instance i was a delivery, it has returned,
\* and no error was recorded during it
DeliveredCleanly(i) ==
    /\ pc[i] = "idle"
    /\ supLog[i] # <<>>
    /\ Last(supLog[i]).method \in {EXT_FN_MESSAGE, EXT_FN_BINARY}
    /\ \A k \in 1..Len(errLog[i]) : errLog[i][k].call # Len(supLog[i])

\* C1: when a host method has returned to the supervisor, every (ptr, len)
\* that jam_malloc returned has been passed to jam_free, whatever the outcome
\* of the delivery was.
C1_AllocFreeBalanced ==
    \A i \in Instances : pc[i] = "idle" => live[StoreOf(i)] = <<>>

\* C2: a delivery in which nothing trapped and the write was in bounds shows
\* the guest exactly jam_malloc(len), the target function with (client, ptr,
\* len) where ptr is what jam_malloc returned and [ptr, ptr+len) holds the
\* payload, and jam_free(ptr, len), with len the payload's length.
C2_DeliverySequence ==
    \A i \in Instances :
        DeliveredCleanly(i) =>
            LET c == Last(supLog[i])
                seg == Segment(i, c)
                len == Len(c.data)
            IN  /\ Len(seg) = 3
                /\ seg[1].fn = EXT_FN_MALLOC
                /\ seg[1].args = <<len>>
                /\ seg[1].end = "returned"
                /\ seg[2].fn = c.method
                /\ seg[2].args = <<c.client, seg[1].ret, len>>
                /\ seg[2].view = c.data
                /\ seg[2].end = "returned"
                /\ seg[3].fn = EXT_FN_FREE
                /\ seg[3].args = <<seg[1].ret, len>>
                /\ seg[3].end = "returned"

C2_Witness ==
    \E i \in Instances :
        /\ DeliveredCleanly(i)
        /\ Last(supLog[i]).method = EXT_FN_BINARY
        /\ Len(supLog[i]) = 2

\* the calls of a log that ended in a trap
TrappedCalls(g) == {k \in 1..Len(g) : g[k].end = "trapped"}

\* the errors of a log that record a trap
TrapErrors(e) == {k \in 1..Len(e) : e[k].error = "Trap"}

\* C3: a trap the guest raises during a public method is caught in the
\* method: the method has returned to the supervisor (the instance is idle,
\* not panicked), the trap is recorded as one logged error of that call, and
\* the instance accepts later calls; a host panic never comes from a trap.
C3_TrapContained ==
    \A i \in Instances :
        LET g == guestLog[StoreOf(i)]
        IN  /\ (result[i] = "Ok" /\ g # <<>> /\ Last(g).end = "trapped") =>
                   /\ pc[i] = "idle"
                   /\ errLog[i] # <<>>
                   /\ Last(errLog[i]).error = "Trap"
                   /\ Last(errLog[i]).call = Len(supLog[i])
                   /\ Last(errLog[i]).method = Last(supLog[i]).method
            /\ result[i] = "Ok" =>
                   Cardinality(TrappedCalls(g)) = Cardinality(TrapErrors(errLog[i]))
            /\ pc[i] = "panicked" => Last(g).end = "aborted"

\* binary reaches the guest and returns after a message that trapped
C3_Witness ==
    \E i \in Instances :
        LET g == guestLog[StoreOf(i)]
        IN  \E k, l \in 1..Len(g) :
                /\ k < l
                /\ g[k].fn = EXT_FN_MESSAGE /\ g[k].end = "trapped"
                /\ g[l].fn = EXT_FN_BINARY /\ g[l].end = "returned"

\* C4: send_message and send_binary with a range outside guest memory, or
\* send_message with bytes that are not UTF-8, end in a recoverable error:
\* the host thread never panics.
C4_ImportsNeverPanic ==
    \A i \in Instances : pc[i] # "panicked"

\* the two version cells as get_global reads them from memory m
ApiVersionIn(m) == get_global(m, module, EXT_JAMSOCKET_VERSION)
ProtocolVersionIn(m) == get_global(m, module, EXT_JAMSOCKET_PROTOCOL)

\* one of the two version cells of memory m holds another value than the
\* host expects
VersionDiffers(m) ==
    \/ ApiVersionIn(m).ok /\ ApiVersionIn(m).val # EXPECTED_API_VERSION
    \/ ProtocolVersionIn(m).ok /\ ProtocolVersionIn(m).val # EXPECTED_PROTOCOL_VERSION

VersionErrors == {"InvalidApiVersion", "InvalidProtocolVersion"}

\* WasmHost::new has returned for instance i and no method was called since:
\* guest memory is as the version checks found it
JustBuilt(i) ==
    /\ pc[i] \in {"idle", "failed"}
    /\ supLog[i] = <<>>

\* the jam_malloc, initialize and jam_free calls of the construction returned
InitializeDone(i) ==
    LET g == guestLog[StoreOf(i)]
    IN  /\ Len(g) >= 3
        /\ \A k \in 1..3 : g[k].end = "returned"

\* the guest of instance i never had one of the five methods' functions called
NoMethodCalled(i) ==
    /\ supLog[i] = <<>>
    /\ \A k \in 1..Len(guestLog[StoreOf(i)]) :
           guestLog[StoreOf(i)][k].fn \notin Methods

\* C5, as stated: WasmHost::new returns an instance only if the two version
\* cells hold 1 and 0, and whenever one of them differs construction fails
\* with a version error and no method is ever called on the guest.
C5_AsStated ==
    \A i \in Instances :
        /\ (JustBuilt(i) /\ result[i] = "Ok") =>
               ~VersionDiffers(mem[StoreOf(i)])
        /\ (JustBuilt(i) /\ VersionDiffers(mem[StoreOf(i)])) =>
               result[i] \in VersionErrors
        /\ result[i] # "Ok" => NoMethodCalled(i)

\* C5, amended: WasmHost::new returns an instance only if the two version
\* cells are readable and hold 1 and 0; when one differs construction fails,
\* with the version error of the first differing cell once every earlier step
\* (the export lookups, jam_malloc, the room-id write, initialize, jam_free
\* and the read of the globals) has succeeded, and with the error of the
\* failed step otherwise; no method is ever called on a guest it rejected.
C5_VersionGate ==
    \A i \in Instances :
        LET m == mem[StoreOf(i)]
            v == ApiVersionIn(m)
            p == ProtocolVersionIn(m)
        IN  /\ (JustBuilt(i) /\ result[i] = "Ok") =>
                   /\ v.ok /\ v.val = EXPECTED_API_VERSION
                   /\ p.ok /\ p.val = EXPECTED_PROTOCOL_VERSION
            /\ (JustBuilt(i) /\ VersionDiffers(m)) => result[i] # "Ok"
            /\ (JustBuilt(i) /\ InitializeDone(i) /\ v.ok
                  /\ v.val # EXPECTED_API_VERSION) =>
                   result[i] = "InvalidApiVersion"
            /\ (JustBuilt(i) /\ InitializeDone(i) /\ v.ok
                  /\ v.val = EXPECTED_API_VERSION /\ p.ok
                  /\ p.val # EXPECTED_PROTOCOL_VERSION) =>
                   result[i] = "InvalidProtocolVersion"
            /\ result[i] # "Ok" => NoMethodCalled(i)

C5_Witness ==
    \E i \in Instances :
        /\ JustBuilt(i)
        /\ InitializeDone(i)
        /\ VersionDiffers(mem[StoreOf(i)])
        /\ result[i] = "InvalidProtocolVersion"

\* C6: the version globals are checked before the room id is copied and
\* initialize is called: a guest whose module holds a mismatching API or
\* protocol version never has initialize invoked.
C6_VersionBeforeInitialize ==
    \A i \in Instances :
        VersionDiffers(module.data) =>
            \A k \in 1..Len(guestLog[StoreOf(i)]) :
                guestLog[StoreOf(i)][k].fn # EXT_FN_INITIALIZE

\* the supervisor's call c got its payload into guest memory: it carries no
\* payload, or jam_malloc returned and the write at its result was in bounds
Deliverable(i, c) ==
    \/ c.method \notin {EXT_FN_MESSAGE, EXT_FN_BINARY}
    \/ c.alloc >= 0 /\ c.alloc + Len(c.data) <= Len(mem[StoreOf(i)])

\* the guest call the supervisor's call c stands for
ExpectedCall(c) ==
    [fn |-> c.method,
     args |-> IF c.method = EXT_FN_TIMER THEN <<>>
              ELSE IF c.method \in {EXT_FN_CONNECT, EXT_FN_DISCONNECT}
              THEN <<c.client>>
              ELSE <<c.client, c.alloc, Len(c.data)>>,
     view |-> c.data]

\* the calls of the five methods' functions the guest has seen, in order
ObservedCalls(i) ==
    LET IsMethod(e) == e.fn \in Methods
        g == SelectSeq(guestLog[StoreOf(i)], IsMethod)
    IN  [k \in 1..Len(g) |->
           [fn |-> g[k].fn, args |-> g[k].args, view |-> g[k].view]]

\* the calls the supervisor made whose payload reached guest memory, in order
DeliverableCalls(i) ==
    LET Ok(c) == Deliverable(i, c)
        q == SelectSeq(supLog[i], Ok)
    IN  [k \in 1..Len(q) |-> ExpectedCall(q[k])]

\* C7: the guest sees the supervisor's connect, disconnect, message, binary
\* and timer calls in the order they were made, with the same client ids and
\* the same payload bytes, none dropped, duplicated or reordered (of the
\* deliveries, those whose jam_malloc returned and whose write succeeded).
C7_SameOrder ==
    \A i \in Instances : ObservedCalls(i) = DeliverableCalls(i)

\* message(c, "A") then message(c, "B"), both seen by the guest
C7_Witness ==
    \E i \in Instances :
        /\ Len(supLog[i]) = 2
        /\ supLog[i][1].method = EXT_FN_MESSAGE /\ supLog[i][1].data = <<65>>
        /\ supLog[i][2].method = EXT_FN_MESSAGE /\ supLog[i][2].data = <<66>>
        /\ Len(ObservedCalls(i)) = 2

\* the context sink of instance i received something in this step
SinkReceives(i) == sink'[ContextOf(i)] # sink[ContextOf(i)]

\* C8, as stated: the context sink receives a guest's event only while one of
\* the public method calls (connect, disconnect, message, binary, timer) is
\* active, never during WasmHost::new.
C8_AsStated ==
    [][\A i \in Instances :
          SinkReceives(i) => pc[i] = "guest" /\ frame[i].op \in Methods]_vars

\* C8, amended: the context sink receives a guest's event only while a guest
\* function the host called is running, strictly between the start and the
\* end of that call: a public method call, or the jam_malloc, initialize and
\* jam_free calls of WasmHost::new; never while no guest call is active.
C8_DuringGuestCall ==
    [][\A i \in Instances :
          SinkReceives(i) =>
              /\ pc[i] = "guest" /\ pc'[i] = "guest"
              /\ frame'[i] = frame[i]
              /\ guestLog'[StoreOf(i)] = guestLog[StoreOf(i)]
              /\ Len(sink'[ContextOf(i)]) = Len(sink[ContextOf(i)]) + 1]_vars

\* the sink holds an event read from a binary payload: it was sent during a
\* public method call
C8_Witness ==
    \E i \in Instances :
        \E k \in 1..Len(sink[ContextOf(i)]) :
            /\ sink[ContextOf(i)][k].data = <<255>>
            /\ supLog[i] # <<>>

\* C9, as stated: once a guest call of an instance has trapped, no later
\* method call invokes a guest function: a trapped call is the last one the
\* guest sees.
C9_AsStated ==
    \A i \in Instances :
        result[i] = "Ok" =>
            \A k \in 1..Len(guestLog[StoreOf(i)]) :
                guestLog[StoreOf(i)][k].end = "trapped" =>
                    k = Len(guestLog[StoreOf(i)])

\* the supervisor's call c was made after a guest call had trapped
AfterTrap(i, c) ==
    \E k \in 1..c.mark : guestLog[StoreOf(i)][k].end = "trapped"

\* C9, amended: a guest trap does not poison the instance in the host: every
\* connect, disconnect, message, binary or timer call made after a trap still
\* calls into the guest (jam_malloc for message and binary, the method's own
\* function for the others).
C9_CallsContinueAfterTrap ==
    \A i \in Instances :
        \A n \in 1..Len(supLog[i]) :
            LET c == supLog[i][n]
                g == guestLog[StoreOf(i)]
            IN  AfterTrap(i, c) =>
                    /\ Len(g) > c.mark
                    /\ g[c.mark + 1].fn =
                           IF c.method \in {EXT_FN_MESSAGE, EXT_FN_BINARY}
                           THEN EXT_FN_MALLOC ELSE c.method

C9_Witness ==
    \E i \in Instances :
        \E n \in 1..Len(supLog[i]) :
            /\ AfterTrap(i, supLog[i][n])
            /\ supLog[i][n].method = EXT_FN_BINARY
            /\ pc[i] = "idle"

\* instance i takes a step
StepOf(i) ==
    \/ pc'[i] # pc[i]
    \/ frame'[i] # frame[i]
    \/ imports'[i] # imports[i]

\* C10: two instances built from one module with different room ids each get
\* their own room id in initialize, and a step of one instance changes
\* neither the guest memory or store of the other nor what the other's
\* context sink has received.
C10_Isolation ==
    /\ [](\A i \in Instances :
            \A k \in 1..Len(guestLog[StoreOf(i)]) :
                guestLog[StoreOf(i)][k].fn = EXT_FN_INITIALIZE =>
                    guestLog[StoreOf(i)][k].view = RoomIdOf(i))
    /\ [][\A i, j \in Instances :
            (i # j /\ StepOf(i)) =>
                /\ mem'[StoreOf(j)] = mem[StoreOf(j)]
                /\ guestLog'[StoreOf(j)] = guestLog[StoreOf(j)]
                /\ live'[StoreOf(j)] = live[StoreOf(j)]
                /\ sink'[ContextOf(j)] = sink[ContextOf(j)]]_vars

\* both instances are built, a binary payload went to one, an event came from
\* the other
C10_Witness ==
    /\ result[1] = "Ok" /\ result[2] = "Ok"
    /\ guestLog[StoreOf(1)][2].view = RoomIdOf(1)
    /\ guestLog[StoreOf(2)][2].view = RoomIdOf(2)
    /\ mem[StoreOf(1)][HeapBase + 1] = 255
    /\ mem[StoreOf(2)][HeapBase + 1] # 255
    /\ sink[ContextOf(2)] # <<>>
    /\ sink[ContextOf(1)] = <<>>

\* the bytes of memory m in [ptr, ptr + len) for rng = (ptr, len), the sum
\* taken in the integers; <<-1>> when the range is not inside m
RangeBytes(m, rng) ==
    LET ptr == rng[1]
        len == rng[2]
    IN  IF ptr[1] = 0 /\ len[1] = 0 /\ ptr[2] + len[2] <= Len(m)
        THEN [k \in 1..len[2] |-> m[ptr[2] + k]]
        ELSE <<-1>>

\* the variant a recipient_i32 stands for
RecipientOf(to) ==
    IF to = 0 THEN [tag |-> "Broadcast", client |-> 0]
    ELSE IF to < 0 THEN [tag |-> "ExcludeOne", client |-> -to]
    ELSE [tag |-> "Single", client |-> to]

\* what the context sink is due for the import call c: one event, or none
\* for a range outside guest memory or a text that is not UTF-8
EventsDue(c) ==
    IF c.kind = "set_timer"
    THEN <<[kind |-> "set_timer", to |-> RecipientOf(0), data |-> <<>>,
            ms |-> c.ms]>>
    ELSE LET b == RangeBytes(c.mem, c.rng)
         IN  IF b = <<-1>> \/ (c.kind = "send_message" /\ ~IsUtf8(b))
             THEN <<>>
             ELSE <<[kind |-> c.kind, to |-> RecipientOf(c.to), data |-> b,
                     ms |-> 0]>>

RECURSIVE AllEventsDue(_)
AllEventsDue(q) ==
    IF q = <<>> THEN <<>> ELSE EventsDue(Head(q)) \o AllEventsDue(Tail(q))

\* the supervisor's call during which guest call number k was made
SupCallOf(i, k) ==
    LET n == CHOOSE n \in 1..Len(supLog[i]) :
                 /\ supLog[i][n].mark < k
                 /\ \A l \in 1..Len(supLog[i]) :
                        supLog[i][l].mark < k => l <= n
    IN  supLog[i][n]

\* the import call c sends back the range the target function was called with
Echoes(i, c) ==
    LET g == guestLog[StoreOf(i)][c.call]
    IN  /\ g.fn \in {EXT_FN_MESSAGE, EXT_FN_BINARY}
        /\ c.kind = (IF g.fn = EXT_FN_MESSAGE THEN "send_message"
                     ELSE "send_binary")
        /\ c.rng = <<W(g.args[2]), W(g.args[3])>>

\* C11: the context sink has received exactly one event for each send_message,
\* send_binary and set_timer call the guest made with a range inside its
\* memory (and, for send_message, UTF-8 bytes), in the order of the calls,
\* each with the decoded recipient and the bytes of guest memory at
\* [ptr, ptr+len) (or the duration); a call that echoes the payload of
\* message(c, s) or binary(c, b) delivers exactly s or b.
C11_BridgeRoundTrip ==
    \A i \in Instances :
        /\ sink[ContextOf(i)] = AllEventsDue(imports[i])
        /\ \A k \in 1..Len(imports[i]) :
               Echoes(i, imports[i][k]) =>
                   /\ EventsDue(imports[i][k]) # <<>>
                   /\ EventsDue(imports[i][k])[1].data =
                          SupCallOf(i, imports[i][k].call).data

\* a guest that set a timer in one call and echoed a binary payload to
\* everyone but one client in the next
C11_Witness ==
    \E i \in Instances :
        /\ Len(imports[i]) = 2
        /\ imports[i][1].kind = "set_timer"
        /\ Echoes(i, imports[i][2])
        /\ Len(sink[ContextOf(i)]) = 2
        /\ sink[ContextOf(i)][2].kind = "send_binary"
        /\ sink[ContextOf(i)][2].to.tag = "ExcludeOne"
        /\ sink[ContextOf(i)][2].data = <<255, 0>>

\* the supervisor's call number n on instance i has returned
Returned(i, n) == n < Len(supLog[i]) \/ pc[i] = "idle"

\* the guest calls made during the supervisor's call number n on instance i
SegmentOf(i, n) ==
    SubSeq(guestLog[StoreOf(i)], supLog[i][n].mark + 1,
           IF n < Len(supLog[i]) THEN supLog[i][n + 1].mark
           ELSE Len(guestLog[StoreOf(i)]))

\* the supervisor's call c is a delivery whose payload does not fit into guest
\* memory at the offset jam_malloc returned
WriteOutOfBounds(i, c) ==
    /\ c.method \in {EXT_FN_MESSAGE, EXT_FN_BINARY}
    /\ c.alloc >= 0
    /\ c.alloc + Len(c.data) > Len(mem[StoreOf(i)])

\* C12: a message or binary delivery whose payload would run past the end of
\* guest memory at the offset jam_malloc returned fails without calling the
\* target function, and the host still calls jam_free(ptr, len) for it.
C12_FailedWriteStillFrees ==
    \A i \in Instances :
        \A n \in 1..Len(supLog[i]) :
            LET c == supLog[i][n]
                seg == SegmentOf(i, n)
            IN  (Returned(i, n) /\ WriteOutOfBounds(i, c)) =>
                    /\ \A k \in 1..Len(seg) : seg[k].fn # c.method
                    /\ \E k \in 1..Len(seg) :
                           /\ seg[k].fn = EXT_FN_FREE
                           /\ seg[k].args = <<c.alloc, Len(c.data)>>

\* the delivery number n on instance i: jam_malloc and the target function
\* returned and the jam_free that ends it trapped
FreeTrapped(i, n) ==
    LET seg == SegmentOf(i, n)
    IN  /\ supLog[i][n].method \in {EXT_FN_MESSAGE, EXT_FN_BINARY}
        /\ Len(seg) = 3
        /\ seg[2].fn = supLog[i][n].method /\ seg[2].end = "returned"
        /\ seg[3].fn = EXT_FN_FREE /\ seg[3].end = "trapped"

\* C13: when the target function of a delivery returned normally, a trap in
\* the final jam_free does not fail the delivery: try_message / try_binary
\* return Ok(()), so the method records no error of the call (the errors
\* recorded are the Err results of try_message / try_binary).
C13_FreeTrapNotAFailure ==
    \A i \in Instances :
        \A n \in 1..Len(supLog[i]) :
            FreeTrapped(i, n) =>
                \A k \in 1..Len(errLog[i]) : errLog[i][k].call # n

\* the exports WasmHost::new resolves, functions and memory
RequiredExports ==
    {EXT_MEMORY, EXT_FN_MALLOC, EXT_FN_FREE, EXT_FN_INITIALIZE} \cup Methods

\* the module lacks one of the required exports or version globals
LacksExport(g) ==
    \/ g.missing \cap RequiredExports # {}
    \/ \E n \in DOMAIN g.globals : g.globals[n].kind = "missing"

\* C14: every required export is resolved before any exported guest function
\* is invoked: a guest that lacks one of them fails construction without
\* jam_malloc or initialize having been called.
C14_ExportsBeforeGuestCalls ==
    \A i \in Instances :
        LacksExport(module) =>
            /\ guestLog[StoreOf(i)] = <<>>
            /\ result[i] # "Ok"

\* the guest calls WasmHost::new made on instance i
BuildSegment(i) ==
    SubSeq(guestLog[StoreOf(i)], 1,
           IF supLog[i] = <<>> THEN Len(guestLog[StoreOf(i)])
           ELSE supLog[i][1].mark)

\* C15: a successfully constructed instance has had, during construction,
\* exactly jam_malloc(len(room_id)), initialize(ptr, len) with the room id's
\* bytes at [ptr, ptr+len) and jam_free(ptr, len), in that order, and
\* initialize is never called again.
C15_InitializeOnce ==
    \A i \in Instances :
        result[i] = "Ok" =>
            LET b == BuildSegment(i)
                g == guestLog[StoreOf(i)]
                len == Len(RoomIdOf(i))
            IN  /\ Len(b) = 3
                /\ \A k \in 1..3 : b[k].end = "returned"
                /\ b[1].fn = EXT_FN_MALLOC /\ b[1].args = <<len>>
                /\ b[2].fn = EXT_FN_INITIALIZE
                /\ b[2].args = <<b[1].ret, len>>
                /\ b[2].view = RoomIdOf(i)
                /\ b[3].fn = EXT_FN_FREE /\ b[3].args = <<b[1].ret, len>>
                /\ \A k \in 4..Len(g) : g[k].fn # EXT_FN_INITIALIZE

\* an instance that was built and has since served two method calls
C15_Witness ==
    \E i \in Instances :
        /\ result[i] = "Ok"
        /\ Len(supLog[i]) = 2
        /\ pc[i] = "idle"
        /\ Len(guestLog[StoreOf(i)]) > 5

\* C16: the jam_malloc, write, target and jam_free steps of a delivery are
\* atomic on the instance: the guest calls made from the start of a delivery
\* to the start of the next method call are its own jam_malloc, target and
\* jam_free, in that order, and none of them is still running when the next
\* method call begins.
C16_DeliveryAtomic ==
    \A i \in Instances :
        \A n \in 1..Len(supLog[i]) :
            LET c == supLog[i][n]
                seg == SegmentOf(i, n)
                Own == <<EXT_FN_MALLOC, c.method, EXT_FN_FREE>>
            IN  c.method \in {EXT_FN_MESSAGE, EXT_FN_BINARY} =>
                    /\ Len(seg) <= 3
                    /\ \A k \in 1..Len(seg) : seg[k].fn = Own[k]
                    /\ \A k \in 1..Len(seg) :
                           (k < Len(seg) \/ n < Len(supLog[i])) =>
                               seg[k].end # "running"

\* a complete delivery followed by another method call
C16_Witness ==
    \E i \in Instances :
        /\ Len(supLog[i]) = 2
        /\ supLog[i][1].method = EXT_FN_MESSAGE
        /\ Len(SegmentOf(i, 1)) = 3
        /\ SegmentOf(i, 1)[3].end = "returned"
        /\ supLog[i][2].method = EXT_FN_CONNECT
        /\ Len(SegmentOf(i, 2)) = 1

\* the little-endian 32-bit integer in the four bytes of m at address a
LeValueAt(m, a) ==
    m[a + 1] + 256 * m[a + 2] + 256 * 256 * m[a + 3]
        + 256 * 256 * 256 * (IF m[a + 4] >= 128 THEN m[a + 4] - 256 ELSE m[a + 4])

\* the global g is an i32 whose value addresses four bytes inside memory m
Addresses(g, m) ==
    g.kind = "i32" /\ g.val >= 0 /\ g.val + 4 <= Len(m)

C18_MallocZeroIsFailure ==
    \A i \in Instances :
        LET g == guestLog[StoreOf(i)]
            m == mem[StoreOf(i)]
        IN  /\ \A k \in 1..Len(g) :
                   (g[k].fn = EXT_FN_MALLOC /\ g[k].end = "returned"
                      /\ g[k].ret = 0 /\ k < Len(g)) =>
                       g[k + 1].fn \notin
                           {EXT_FN_MESSAGE, EXT_FN_BINARY, EXT_FN_INITIALIZE}
            /\ m # <<>> => m[1] = module.data[1]

\* ptr + len of the range exceeds 2^32 - 1
SumExceedsU32(rng) ==
    rng[1][1] + rng[2][1] + ((rng[1][2] + rng[2][2]) \div Limb) >= Limb

\* C19: the range send_message and send_binary read is [ptr, ptr+len) taken
\* without 32-bit wrap-around: a call whose ptr + len exceeds 2^32 - 1 is
\* rejected as out of bounds, an error returned to the guest; it never
\* delivers bytes of a wrapped range and never aborts the host.
C19_NoWrapAround ==
    \A i \in Instances :
        \A k \in 1..Len(imports[i]) :
            (imports[i][k].kind # "set_timer"
               /\ SumExceedsU32(imports[i][k].rng)) =>
                imports[i][k].st = "err"

\* C20: for any interleaving of new_room requests, every room id returned to
\* a client maps in the room mapper to the room actor that request created,
\* so a later new_room never replaces the entry of an existing room; and a
\* request under the Explicit or Singleton strategy gets a bad-request error
\* with no room actor created and no mapper entry made.
C20_RoomMapperKeepsRooms ==
    /\ \A r \in Requests :
           request[r].response = "Ok" =>
               /\ r \in actors
               /\ room_mapper[request[r].room_id] = r
    /\ room_id_strategy \in {"Explicit", "Singleton"} =>
           /\ actors = {}
           /\ \A id \in RoomIds : room_mapper[id] = NoAddr
           /\ \A r \in Requests :
                  request[r].at = "done" => request[r].response = "BadRequest"

=============================================================================
